---- MODULE Spec2Model ----
(***************************************************************************)
(* Model of the AK8963 magnetometer driver,                                *)
(* src/src/main/drivers/compass_ak8963.c: detection, calibration, the      *)
(* queued-read helpers and the two readers (the state machine of the       *)
(* SPRACINGF3EVO build and the blocking reader of every other build).      *)
(***************************************************************************)
EXTENDS Integers, Sequences, FiniteSets, TLC

(* ------------------------------------------------------------------ *)
(* Register map and constants (compass_ak8963.c:51-84)                *)
(* ------------------------------------------------------------------ *)
AK8963_MAG_I2C_ADDRESS == 12
AK8963_Device_ID == 72
AK8963_MAG_REG_WHO_AM_I == 0
AK8963_MAG_REG_STATUS1 == 2
AK8963_MAG_REG_HXL == 3
AK8963_MAG_REG_STATUS2 == 9
AK8963_MAG_REG_CNTL == 10
AK8963_MAG_REG_ASAX == 16
READ_FLAG == 128
STATUS1_DATA_READY == 1
STATUS1_DATA_OVERRUN == 2
STATUS2_DATA_ERROR == 2
STATUS2_MAG_SENSOR_OVERFLOW == 3
CNTL_MODE_POWER_DOWN == 0
CNTL_MODE_ONCE == 1
CNTL_MODE_CONT1 == 2
CNTL_MODE_FUSE_ROM == 15
(* the conversion budget of ak8963SPIQueuedReadTimeRemaining, in microseconds *)
QueuedReadBudget == 8000
(* the length of the reader's local buffer, uint8_t buf[7] *)
BufLen == 7

(* ------------------------------------------------------------------ *)
(* Bounds of the model                                                *)
(* ------------------------------------------------------------------ *)
(* status-2 bytes the bus may return: 0 .. MaxStatus *)
MaxStatus == 7
(* status-1 bytes the bus may return: 0 .. MaxStatus1 *)
MaxStatus1 == 3
(* passes through the reader's switch that one invocation is followed for *)
MaxPasses == 3
(* runs of the calibrator that a behaviour may hold *)
MaxInitRuns == 1
(* longest gap between two polls of the periodic caller, microseconds *)
MaxPollGap == 1500000000

StatusBytes == 0..MaxStatus
Status1Bytes == 0..MaxStatus1
(* values an uninitialised or stale byte may hold *)
UninitBytes == {0, 2}

(* ------------------------------------------------------------------ *)
(* uint8_t bit operations                                             *)
(* ------------------------------------------------------------------ *)
RECURSIVE BitAnd(_, _)
BitAnd(a, b) ==
    IF a = 0 \/ b = 0 THEN 0
    ELSE (a % 2) * (b % 2) + 2 * BitAnd(a \div 2, b \div 2)

RECURSIVE BitOr(_, _)
BitOr(a, b) ==
    IF a = 0 THEN b
    ELSE IF b = 0 THEN a
    ELSE (IF (a % 2) + (b % 2) > 0 THEN 1 ELSE 0) + 2 * BitOr(a \div 2, b \div 2)

(* ------------------------------------------------------------------ *)
(* uint32_t / int32_t arithmetic.  A uint32_t is the pair <<hi, lo>>  *)
(* of its 16-bit halves, so that the full 32-bit width is kept.       *)
(* ------------------------------------------------------------------ *)
Half == 65536
Zero32 == <<0, 0>>
(* a non-negative int32 value as a uint32_t *)
U32(n) == <<n \div Half, n % Half>>
(* a + b modulo 2^32 *)
Add32(a, b) ==
    LET s == a[2] + b[2]
    IN  <<(a[1] + b[1] + (s \div Half)) % Half, s % Half>>
(* a - b modulo 2^32 *)
Sub32(a, b) ==
    LET d == a[2] - b[2]
    IN  <<(a[1] - b[1] - (IF d < 0 THEN 1 ELSE 0)) % Half, d % Half>>
(* the uint32_t reinterpreted as int32_t (two's complement) *)
ToInt32(u) ==
    IF u[1] >= 32768 THEN (u[1] - Half) * Half + u[2] ELSE u[1] * Half + u[2]
(* a >= b, unsigned *)
Ge32(a, b) == a[1] > b[1] \/ (a[1] = b[1] /\ a[2] >= b[2])
MaxInt32 == 2147483647

(* ------------------------------------------------------------------ *)
(* The environment: clock readings and bus contents                   *)
(* ------------------------------------------------------------------ *)
(* readings of micros(), around the 32-bit range: 4000 before the     *)
(* wrap, 0, 4000, 8000, a third of the range, 2^31 + 4000 and two     *)
(* thirds of the range                                                *)
ClockValues ==
    { <<65535, 61536>>, <<0, 0>>, <<0, 4000>>, <<0, 8000>>,
      <<21845, 0>>, <<32768, 4000>>, <<43690, 0>> }

(* the six data registers HXL..HZH as the sensor may hold them *)
SampleData ==
    { <<0, 1, 0, 2, 0, 3>>,
      <<0, 128, 1, 0, 255, 255>> }

(* fuse-ROM bytes ASAX..ASAZ as the sensor may hold them *)
CalTriples == { <<128, 0, 127>>, <<0, 0, 0>> }

(* identity bytes the bus may return *)
SigBytes == {AK8963_Device_ID, 0}

X == 1
Y == 2
Z == 3

VARIABLES
    build,        \* the compile-time configuration: USE_I2C, USE_SPI, SPRACINGF3EVO
    ak8963config, \* the transport bound by ak8963Detect: "none", "i2c" or "spi"
    mag,          \* the caller's mag_t: its init and read entry points
    magGain,      \* static float magGain[3], as numerators over GainDen
    queuedRead,   \* static queuedReadState_t queuedRead
    state,        \* static ak8963ReadState_e state of ak8963Read
    slv0,         \* the MPU's I2C slave-0 registers: register and length programmed
    clock,        \* the reading of micros()
    sinceStart,   \* true microseconds since readStartedAt was taken, up to the budget
    started,      \* queued reads programmed since the last completion
    initRuns,     \* runs of ak8963Init so far
    magData,      \* the caller's int16_t magData[3]
    polls,        \* calls of the periodic caller since the last sample
    last          \* what the last call did: its entry state, result and bus operations

vars == <<build, ak8963config, mag, magGain, queuedRead, state, slv0, clock,
          sinceStart, started, initRuns, magData, polls, last>>

(* ------------------------------------------------------------------ *)
(* The record of the last call                                        *)
(* ------------------------------------------------------------------ *)
NoQueuedRead == [waiting |-> FALSE, len |-> 0, readStartedAt |-> Zero32]

BlankLast ==
    [ fn         |-> "none",          \* the function called
      entry      |-> "CHECK_STATUS",  \* the reader's state on entry
      entryQ     |-> NoQueuedRead,    \* queuedRead on entry
      entryMag   |-> <<0, 0, 0>>,     \* magData on entry
      entrySince |-> 0,               \* sinceStart on entry
      ret        |-> FALSE,           \* the value returned
      done       |-> TRUE,            \* the call returned within MaxPasses passes
      passes     |-> <<>>,            \* the state at "restart:" of each pass
      ops        |-> <<>>,            \* the bus operations, in order
      fetches    |-> <<>>,            \* each fetch of EXT_SENS_DATA: waiting, len, sinceStart
      status     |-> -1,              \* the status-1 byte examined, if any
      status2    |-> -1,              \* the status-2 byte examined, if any
      buf        |-> <<>>,            \* the buffer that was decoded, if any
      gain       |-> <<>>,            \* magGain at the decode
      acks       |-> <<>>,            \* the acknowledgments of the bus accesses, in order
      remaining  |-> <<>> ]           \* what ak8963SPIQueuedReadTimeRemaining returned, if called

(* ------------------------------------------------------------------ *)
(* The queued read (compass_ak8963.c:130-185)                         *)
(* ------------------------------------------------------------------ *)
(* ak8963SPIStartRead with no check of queuedRead.waiting *)
StartReadUnguarded(q, now, addr_, reg_, len_) ==
    [ ok  |-> TRUE,
      q   |-> [waiting |-> TRUE, len |-> len_, readStartedAt |-> now],
      ops |-> << <<"mpu.write", "MPU_RA_I2C_SLV0_ADDR", BitOr(addr_, READ_FLAG)>>,
                 <<"mpu.write", "MPU_RA_I2C_SLV0_REG", reg_>>,
                 <<"mpu.write", "MPU_RA_I2C_SLV0_CTRL", BitOr(len_, 128)>> >> ]

(* ak8963SPIStartRead: the value returned, queuedRead afterwards, the writes made *)
StartRead(q, now, addr_, reg_, len_) ==
    IF q.waiting
    THEN [ok |-> FALSE, q |-> q, ops |-> <<>>]
    ELSE [ ok  |-> TRUE,
           q   |-> [waiting |-> TRUE, len |-> len_, readStartedAt |-> now],
           ops |-> << <<"mpu.write", "MPU_RA_I2C_SLV0_ADDR", BitOr(addr_, READ_FLAG)>>,
                      <<"mpu.write", "MPU_RA_I2C_SLV0_REG", reg_>>,
                      <<"mpu.write", "MPU_RA_I2C_SLV0_CTRL", BitOr(len_, 128)>> >> ]

(* ak8963SPIQueuedReadTimeRemaining with the budget taken as already spent *)
TimeRemainingNoBudget(q, now) == {Zero32}

(* ak8963SPIQueuedReadTimeRemaining: the values it may return.  8000 -    *)
(* timeSinceStarted overflows int32_t when timeSinceStarted is within     *)
(* 8000 of INT32_MIN; a build may then wrap (the result is negative and 0 *)
(* is returned) or keep the unwrapped difference (returned as uint32_t).  *)
QueuedReadTimeRemaining(q, now) ==
    IF ~q.waiting THEN {Zero32}
    ELSE LET timeSinceStarted == ToInt32(Sub32(now, q.readStartedAt))
         IN  IF timeSinceStarted < QueuedReadBudget - MaxInt32
             THEN {Zero32, Sub32(U32(QueuedReadBudget), Sub32(now, q.readStartedAt))}
             ELSE LET timeRemaining == QueuedReadBudget - timeSinceStarted
                  IN  IF timeRemaining < 0 THEN {Zero32} ELSE {U32(timeRemaining)}

(* delayMicroseconds(t): the clock readings it may return at *)
DelayMicroseconds(now, t) ==
    IF t = Zero32 THEN {now}
    ELSE {c \in ClockValues : Ge32(Sub32(c, now), t)}

(* ak8963SPICompleteRead that leaves queuedRead.waiting set *)
CompleteReadKeepWaiting(q, now) ==
    { [q |-> q, now |-> c, fetch |-> [waiting |-> q.waiting, len |-> q.len], ret |-> TRUE] :
        c \in UNION {DelayMicroseconds(now, t) : t \in QueuedReadTimeRemaining(q, now)} }

(* ak8963SPICompleteRead: the clock after the residual wait, queuedRead   *)
(* afterwards, and the fetch of EXT_SENS_DATA_00 with the waiting flag    *)
(* and the length it is made under                                        *)
CompleteRead(q, now) ==
    { LET q1 == [q EXCEPT !.waiting = FALSE]
      IN  [q |-> q1, now |-> c, fetch |-> [waiting |-> q1.waiting, len |-> q1.len],
           ret |-> TRUE] :
        c \in UNION {DelayMicroseconds(now, t) : t \in QueuedReadTimeRemaining(q, now)} }

(* true time from clock reading a to the later reading b, capped at the budget *)
Elapsed(since, a, b) ==
    LET d == Sub32(b, a)
    IN  IF Ge32(d, U32(QueuedReadBudget)) THEN QueuedReadBudget
        ELSE IF since + d[2] >= QueuedReadBudget THEN QueuedReadBudget
        ELSE since + d[2]

(* ------------------------------------------------------------------ *)
(* Decoding an axis (compass_ak8963.c:350-352, 377-379)               *)
(* ------------------------------------------------------------------ *)
GainDen == 256
(* the default gain 1.0f *)
UnitGain == 256

(* (int16_t)(hi << 8 | lo) *)
RawAxis(lo, hi) ==
    LET v == hi * 256 + lo
    IN  IF v >= 32768 THEN v - 65536 ELSE v

(* a / b rounded toward zero, as a float converts to an integer *)
TruncDiv(a, b) == IF a >= 0 THEN a \div b ELSE -((-a) \div b)

Wrap16(t) == LET m == t % 65536 IN IF m >= 32768 THEN m - 65536 ELSE m
Sat16(t) == IF t > 32767 THEN 32767 ELSE IF t < -32768 THEN -32768 ELSE t

(* what a build makes of a float outside int16_t when it converts it *)
Conversions == {"wrap", "saturate"}

(* (int16_t)f for the float f = n / GainDen: the truncation toward zero;  *)
(* outside int16_t the conversion is undefined in C, and the build wraps  *)
(* or saturates                                                           *)
ToInt16(n, conv) ==
    LET t == TruncDiv(n, GainDen)
    IN  IF t \in -32768..32767 THEN t
        ELSE IF conv = "wrap" THEN Wrap16(t) ELSE Sat16(t)

(* magData[axis] = -(int16_t)(hi << 8 | lo) * magGain[axis] *)
Axis(lo, hi, g, conv) == ToInt16((-RawAxis(lo, hi)) * g, conv)

(* the three axes of a buffer, in X, Y, Z order *)
Decode(buf, gain) ==
    { << Axis(buf[1], buf[2], gain[X], conv),
         Axis(buf[3], buf[4], gain[Y], conv),
         Axis(buf[5], buf[6], gain[Z], conv) >> : conv \in Conversions }

(* ------------------------------------------------------------------ *)
(* The asynchronous reader (compass_ak8963.c:292-360)                 *)
(* ------------------------------------------------------------------ *)
(* state++ *)
NextState(s) ==
    IF s = "CHECK_STATUS" THEN "WAITING_FOR_STATUS"
    ELSE IF s = "WAITING_FOR_STATUS" THEN "WAITING_FOR_DATA"
    ELSE "INVALID"

(* line 318: the status read is a miss *)
Status1Miss(ack, status) ==
    ~ack \/ (BitAnd(status, STATUS1_DATA_READY) = 0
                /\ BitAnd(status, STATUS1_DATA_OVERRUN) = 0)

(* lines 346 and 373: the data read is rejected *)
Status2Reject(ack, status2) ==
    ~ack \/ BitAnd(status2, STATUS2_DATA_ERROR) # 0
         \/ BitAnd(status2, STATUS2_MAG_SENSOR_OVERFLOW) # 0

(* the state assigned on a miss, were it the data state *)
StateAfterMissData == "WAITING_FOR_DATA"

(* line 320: the state assigned on a miss *)
StateAfterMiss == "CHECK_STATUS"

(* the state assigned after a sample, were it the status state *)
StateAfterSampleStatus == "WAITING_FOR_STATUS"

(* line 354: the state assigned after a sample *)
StateAfterSample == "CHECK_STATUS"

(* the context of an invocation entered at clock reading now, since       *)
(* microseconds after the last start                                      *)
EntryContext(now, since) ==
    [ state |-> state, q |-> queuedRead, slv0 |-> slv0, now |-> now,
      since |-> since, started |-> started, magData |-> magData,
      retry |-> TRUE, done |-> FALSE, ret |-> FALSE, passes |-> <<>>,
      ops |-> <<>>, fetches |-> <<>>, status |-> -1, status2 |-> -1,
      buf |-> <<>>, gain |-> <<>>, acks |-> <<>>, remaining |-> <<>> ]

Return(c, value) == [c EXCEPT !.done = TRUE, !.ret = value]

(* the context after a call of ak8963SPIStartRead(addr, reg_, len_) *)
AfterStart(c, reg_, len_) ==
    LET s == StartRead(c.q, c.now, AK8963_MAG_I2C_ADDRESS, reg_, len_)
    IN  [c EXCEPT !.q = s.q,
                  !.ops = @ \o s.ops,
                  !.slv0 = IF s.ops # <<>> THEN [reg |-> reg_, len |-> len_] ELSE @,
                  !.since = IF s.ops # <<>> THEN 0 ELSE @,
                  !.started = IF s.ops # <<>> THEN @ + 1 ELSE @]

(* the context after a call of ak8963SPICompleteRead with outcome k *)
AfterComplete(c, k) ==
    LET since1 == Elapsed(c.since, c.now, k.now)
    IN  [c EXCEPT !.q = k.q,
                  !.now = k.now,
                  !.since = since1,
                  !.started = 0,
                  !.ops = Append(@, <<"mpu.read", "MPU_RA_EXT_SENS_DATA_00", k.fetch.len>>),
                  !.fetches = Append(@, [waiting |-> k.fetch.waiting, len |-> k.fetch.len,
                                         since |-> since1, expected |-> c.started])]

(* case CHECK_STATUS with the state++ left out *)
CaseCheckStatusNoAdvance(c) ==
    { Return(AfterStart(c, AK8963_MAG_REG_STATUS1, 1), FALSE) }

(* case CHECK_STATUS, lines 303-306 *)
CaseCheckStatus(c) ==
    LET c1 == AfterStart(c, AK8963_MAG_REG_STATUS1, 1)
    IN  { Return([c1 EXCEPT !.state = NextState(@)], FALSE) }

(* case WAITING_FOR_STATUS after the read completed, lines 316-334 *)
StatusFetched(c, ack, b) ==
    LET c1 == [c EXCEPT !.status = b[1]]
    IN  IF Status1Miss(ack, b[1])
        THEN LET c2 == [c1 EXCEPT !.state = StateAfterMiss]
             IN  IF c2.retry THEN [c2 EXCEPT !.retry = FALSE] ELSE Return(c2, FALSE)
        ELSE LET c2 == AfterStart(c1, AK8963_MAG_REG_HXL, 7)
             IN  Return([c2 EXCEPT !.state = NextState(@)], FALSE)

(* case WAITING_FOR_STATUS, lines 308-335 *)
CaseWaitingForStatus(c, b) ==
    UNION { LET c0 == [c EXCEPT !.remaining = t]
            IN  IF t # Zero32 THEN { Return(c0, FALSE) }
                ELSE { StatusFetched(AfterComplete(c0, k), k.ret, b) :
                         k \in CompleteRead(c.q, c.now) } :
            t \in QueuedReadTimeRemaining(c.q, c.now) }

(* case WAITING_FOR_DATA after the read completed, lines 345-356 *)
DataFetched(c, ack, b, gain) ==
    LET c1 == [c EXCEPT !.status2 = b[7]]
    IN  IF Status2Reject(ack, b[7])
        THEN { Return(c1, FALSE) }
        ELSE { Return([c1 EXCEPT !.magData = m, !.buf = b, !.gain = gain,
                                 !.state = StateAfterSample], TRUE) :
                 m \in Decode(b, gain) }

(* case WAITING_FOR_DATA, lines 337-357 *)
CaseWaitingForData(c, b, gain) ==
    UNION { LET c0 == [c EXCEPT !.remaining = t]
            IN  IF t # Zero32 THEN { Return(c0, FALSE) }
                ELSE UNION { DataFetched(AfterComplete(c0, k), k.ret, b, gain) :
                               k \in CompleteRead(c.q, c.now) } :
            t \in QueuedReadTimeRemaining(c.q, c.now) }

(* one pass from the label restart through the switch, lines 301-360 *)
Pass(c, b, gain) ==
    LET c1 == [c EXCEPT !.passes = Append(@, c.state)]
    IN  IF c.state = "CHECK_STATUS" THEN CaseCheckStatus(c1)
        ELSE IF c.state = "WAITING_FOR_STATUS" THEN CaseWaitingForStatus(c1, b)
        ELSE IF c.state = "WAITING_FOR_DATA" THEN CaseWaitingForData(c1, b, gain)
        ELSE { Return(c1, FALSE) }

(* the invocation: passes until one returns, followed for at most n passes *)
RECURSIVE RunRead(_, _, _, _)
RunRead(c, b, gain, n) ==
    IF c.done \/ n = 0 THEN {c}
    ELSE UNION { RunRead(c2, b, gain, n - 1) : c2 \in Pass(c, b, gain) }

(* what the sensor registers from reg on hold, as far as the model tells them apart *)
SensorBytes(st1, d, st2, reg) ==
    IF reg = AK8963_MAG_REG_STATUS1 THEN st1
    ELSE IF reg >= AK8963_MAG_REG_HXL /\ reg < AK8963_MAG_REG_STATUS2
         THEN d[reg - AK8963_MAG_REG_HXL + 1]
    ELSE IF reg = AK8963_MAG_REG_STATUS2 THEN st2
    ELSE 0

(* the buffers a fetch may fill: the first s.len bytes are the sensor     *)
(* registers from s.reg on, the others are stale                          *)
Covers(s, reg) == s.len > 0 /\ s.reg <= reg /\ reg < s.reg + s.len

ExtSensData(s) ==
    { [i \in 1..BufLen |-> IF i <= s.len THEN SensorBytes(st1, d, st2, s.reg + i - 1) ELSE j] :
        st1 \in IF Covers(s, AK8963_MAG_REG_STATUS1) THEN Status1Bytes ELSE {0},
        d \in IF \E r \in AK8963_MAG_REG_HXL..(AK8963_MAG_REG_STATUS2 - 1) : Covers(s, r)
               THEN SampleData ELSE {<<0, 0, 0, 0, 0, 0>>},
        st2 \in IF Covers(s, AK8963_MAG_REG_STATUS2) THEN StatusBytes ELSE {0},
        j \in IF s.len < BufLen THEN UninitBytes ELSE {0} }

(* the record of a call of the reader that ended in context c *)
ReadRecord(fn, c, since) ==
    [ BlankLast EXCEPT !.fn = fn, !.entry = state, !.entryQ = queuedRead,
                       !.entryMag = magData, !.entrySince = since,
                       !.ret = c.ret, !.done = c.done, !.passes = c.passes,
                       !.ops = c.ops, !.fetches = c.fetches, !.status = c.status,
                       !.status2 = c.status2, !.buf = c.buf, !.gain = c.gain,
                       !.acks = c.acks, !.remaining = c.remaining ]

(* ak8963Read in the SPRACINGF3EVO build, entered at clock reading now    *)
(* with one of the buffers bufs in the MPU's data registers               *)
ReadAsyncAt(now, since, bufs) ==
    \E b \in bufs :
      \E c \in RunRead(EntryContext(now, since), b, magGain, MaxPasses) :
        /\ state' = c.state
        /\ queuedRead' = c.q
        /\ slv0' = c.slv0
        /\ clock' = c.now
        /\ sinceStart' = c.since
        /\ started' = c.started
        /\ magData' = c.magData
        /\ last' = ReadRecord("readAsync", c, since)
        /\ UNCHANGED <<build, ak8963config, mag, magGain, initRuns>>

ReadAsync ==
    /\ build.SPRACINGF3EVO
    /\ mag.read = "ak8963Read"
    /\ ReadAsyncAt(clock, sinceStart, ExtSensData(slv0))
    /\ UNCHANGED polls

(* time passes between two calls *)
Tick ==
    /\ build.SPRACINGF3EVO
    /\ \E c \in ClockValues \ {clock} :
         /\ clock' = c
         /\ sinceStart' = Elapsed(sinceStart, clock, c)
    /\ last' = [BlankLast EXCEPT !.fn = "tick"]
    /\ UNCHANGED <<build, ak8963config, mag, magGain, queuedRead, state, slv0,
                   started, initRuns, magData, polls>>

(* ------------------------------------------------------------------ *)
(* The transport (compass_ak8963.c:105-126, 189-199)                  *)
(* ------------------------------------------------------------------ *)
(* what a bus access through the bound transport may return: i2cRead and  *)
(* i2cWrite report the acknowledgment, ak8963SPIRead and ak8963SPIWrite   *)
(* return true whatever happened                                          *)
Acks(transport) == IF transport = "i2c" THEN BOOLEAN ELSE {TRUE}

(* the clock readings after a wait of d microseconds; micros() is read    *)
(* only in the SPRACINGF3EVO build                                        *)
ClockAfter(d) ==
    IF build.SPRACINGF3EVO THEN DelayMicroseconds(clock, U32(d)) ELSE {clock}

(* the slave-0 registers after a transfer through ak8963SPIRead or        *)
(* ak8963SPIWrite, which program them; a write fetches no byte            *)
Slv0After(transport, reg_, len_) ==
    IF transport = "spi" THEN [reg |-> reg_, len |-> len_] ELSE slv0

(* ------------------------------------------------------------------ *)
(* The synchronous reader (compass_ak8963.c:362-381)                  *)
(* ------------------------------------------------------------------ *)
(* line 366: the status read is a miss *)
SyncStatus1Miss(ack, status) ==
    ~ack \/ BitAnd(status, STATUS1_DATA_READY) = 0

(* line 381: the value returned after a sample is the re-arm write's *)
SyncResult(ackWrite) == ackWrite

(* the buffers a read of the seven bytes from HXL may leave: the sensor's  *)
(* registers if it is acknowledged, else what buf held, byte 0 being the  *)
(* status read before                                                     *)
DataBuffers(ack, status) ==
    IF ack THEN { d \o <<st2>> : d \in SampleData, st2 \in StatusBytes }
    ELSE { <<status, j, j, j, j, j, j>> : j \in UninitBytes }

(* lines 370-381, the status read having been accepted *)
SyncData(c, transport, gain) ==
    UNION {
      LET c1 == [c EXCEPT !.ops = Append(@, <<"read", AK8963_MAG_REG_HXL, 7>>),
                          !.acks = Append(@, ab[1]),
                          !.status2 = ab[2][7]]
      IN  IF Status2Reject(ab[1], ab[2][7])
          THEN { Return(c1, FALSE) }
          ELSE { Return([c1 EXCEPT !.magData = m, !.buf = ab[2], !.gain = gain,
                                   !.ops = Append(@, <<"write", AK8963_MAG_REG_CNTL,
                                                       CNTL_MODE_ONCE>>),
                                   !.acks = Append(@, ackWrite)],
                        SyncResult(ackWrite)) :
                   m \in Decode(ab[2], gain), ackWrite \in Acks(transport) } :
      ab \in UNION { { <<ack, b>> : b \in DataBuffers(ack, c.status) } :
                       ack \in Acks(transport) } }

(* the bytes a read of STATUS1 may leave in buf[0] *)
StatusBuffers(ack) == IF ack THEN Status1Bytes ELSE UninitBytes

(* lines 362-381; a read that is not acknowledged leaves buf as it was *)
SyncRead(c, transport, gain) ==
    UNION {
      LET c1 == [c EXCEPT !.passes = <<"SYNC">>,
                          !.ops = Append(@, <<"read", AK8963_MAG_REG_STATUS1, 1>>),
                          !.acks = Append(@, as[1]),
                          !.status = as[2]]
      IN  IF SyncStatus1Miss(as[1], as[2])
          THEN { Return(c1, FALSE) }
          ELSE SyncData(c1, transport, gain) :
      as \in UNION { { <<ack, st>> : st \in StatusBuffers(ack) } :
                       ack \in Acks(transport) } }

(* ak8963Read in a build without SPRACINGF3EVO, were it to put the gains  *)
(* back to their initial values                                           *)
ReadSyncResettingGain ==
    /\ ~build.SPRACINGF3EVO
    /\ mag.read = "ak8963Read"
    /\ \E c \in SyncRead(EntryContext(clock, sinceStart), ak8963config, magGain) :
         /\ magData' = c.magData
         /\ last' = ReadRecord("readSync", c, sinceStart)
    /\ magGain' = <<UnitGain, UnitGain, UnitGain>>
    /\ UNCHANGED <<build, ak8963config, mag, queuedRead, state, slv0, clock,
                   sinceStart, started, initRuns, polls>>

(* ak8963Read in a build without SPRACINGF3EVO *)
ReadSync ==
    /\ ~build.SPRACINGF3EVO
    /\ mag.read = "ak8963Read"
    /\ \E c \in SyncRead(EntryContext(clock, sinceStart), ak8963config, magGain) :
         /\ magData' = c.magData
         /\ last' = ReadRecord("readSync", c, sinceStart)
    /\ UNCHANGED <<build, ak8963config, mag, magGain, queuedRead, state, slv0, clock,
                   sinceStart, started, initRuns, polls>>

(* ------------------------------------------------------------------ *)
(* Calibration (compass_ak8963.c:246-279)                             *)
(* ------------------------------------------------------------------ *)
(* (int8_t)b *)
Int8(b) == IF b >= 128 THEN b - 256 ELSE b

(* lines 262-264: ((((float)(int8_t)b - 128) / 256) + 1) * 30, which is   *)
(* ((int8_t)b + 128) * 30 / 256 exactly; the numerator over GainDen       *)
GainOf(b) == (Int8(b) - 128 + GainDen) * 30

(* the last write of ak8963Init, lines 274-278 *)
ArmMode(b) == IF b.SPRACINGF3EVO THEN CNTL_MODE_CONT1 ELSE CNTL_MODE_ONCE

(* the bus operations of ak8963Init, were the first measurement always    *)
(* armed in single-measurement mode                                       *)
InitOpsArmOnce(b) ==
    << <<"write", AK8963_MAG_REG_CNTL, CNTL_MODE_POWER_DOWN>>,
       <<"write", AK8963_MAG_REG_CNTL, CNTL_MODE_FUSE_ROM>>,
       <<"read", AK8963_MAG_REG_ASAX, 3>>,
       <<"write", AK8963_MAG_REG_CNTL, CNTL_MODE_POWER_DOWN>>,
       <<"read", AK8963_MAG_REG_STATUS1, 1>>,
       <<"read", AK8963_MAG_REG_STATUS2, 1>>,
       <<"write", AK8963_MAG_REG_CNTL, CNTL_MODE_ONCE>> >>

(* the bus operations of ak8963Init, in order *)
InitOps(b) ==
    << <<"write", AK8963_MAG_REG_CNTL, CNTL_MODE_POWER_DOWN>>,
       <<"write", AK8963_MAG_REG_CNTL, CNTL_MODE_FUSE_ROM>>,
       <<"read", AK8963_MAG_REG_ASAX, 3>>,
       <<"write", AK8963_MAG_REG_CNTL, CNTL_MODE_POWER_DOWN>>,
       <<"read", AK8963_MAG_REG_STATUS1, 1>>,
       <<"read", AK8963_MAG_REG_STATUS2, 1>>,
       <<"write", AK8963_MAG_REG_CNTL, ArmMode(b)>> >>

(* the waits of ak8963Init, microseconds: delay(20) and three delay(10),  *)
(* and delay(8) in each ak8963SPIRead                                     *)
InitWait(transport) == IF transport = "spi" THEN 74000 ELSE 50000

(* the acknowledgments of the seven accesses: all given, all missing, or  *)
(* one missing                                                            *)
AckVectors(transport) ==
    { a \in [1..7 -> Acks(transport)] :
        Cardinality({i \in 1..7 : ~a[i]}) \in {0, 1, 7} }

(* ak8963Init; a calibration read that is not acknowledged leaves the     *)
(* three bytes uninitialised                                              *)
Ak8963Init ==
    /\ mag.init = "ak8963Init"
    /\ initRuns < MaxInitRuns
    /\ \E acks \in AckVectors(ak8963config) :
       \E cal \in IF acks[3] THEN CalTriples ELSE {<<j, j, j>> : j \in UninitBytes} :
       \E c \in ClockAfter(InitWait(ak8963config)) :
         /\ magGain' = <<GainOf(cal[X]), GainOf(cal[Y]), GainOf(cal[Z])>>
         /\ clock' = c
         /\ sinceStart' = Elapsed(sinceStart, clock, c)
         /\ slv0' = Slv0After(ak8963config, AK8963_MAG_REG_CNTL, 0)
         /\ last' = [BlankLast EXCEPT !.fn = "init", !.ops = InitOps(build),
                                       !.acks = acks, !.buf = cal]
    /\ initRuns' = initRuns + 1
    /\ UNCHANGED <<build, ak8963config, mag, queuedRead, state, started, magData, polls>>

(* ------------------------------------------------------------------ *)
(* Detection (compass_ak8963.c:201-244)                               *)
(* ------------------------------------------------------------------ *)
(* the operations of the pass-through probe, lines 223-232 and 108-113 *)
SpiProbeOps ==
    << <<"mpu.write", "MPU_RA_INT_PIN_CFG", 16>>,
       <<"mpu.write", "MPU_RA_I2C_MST_CTRL", 13>>,
       <<"mpu.write", "MPU_RA_USER_CTRL", 48>>,
       <<"mpu.write", "MPU_RA_I2C_SLV0_ADDR", BitOr(AK8963_MAG_I2C_ADDRESS, READ_FLAG)>>,
       <<"mpu.write", "MPU_RA_I2C_SLV0_REG", AK8963_MAG_REG_WHO_AM_I>>,
       <<"mpu.write", "MPU_RA_I2C_SLV0_CTRL", BitOr(1, 128)>>,
       <<"mpu.read", "MPU_RA_EXT_SENS_DATA_00", 1>> >>

I2cProbeOps == << <<"i2c.read", AK8963_MAG_REG_WHO_AM_I, 1>> >>

(* the identity test of lines 209 and 233 *)
Identified(ack, sig) == ack /\ sig = AK8963_Device_ID

(* ak8963Detect with the pass-through path probed, and preferred, first *)
DetectOutcomesSpiFirst(b) ==
    { LET bySpi == b.USE_SPI /\ Identified(TRUE, sigS)
          byI2c == b.USE_I2C /\ Identified(ackI, sigI)
      IN  [ ret  |-> byI2c \/ bySpi,
            bind |-> IF bySpi THEN "spi" ELSE IF byI2c THEN "i2c" ELSE "keep",
            ops  |-> (IF b.USE_SPI THEN SpiProbeOps ELSE <<>>)
                       \o (IF b.USE_I2C /\ ~bySpi THEN I2cProbeOps ELSE <<>>),
            acks |-> <<ackI>>,
            sigs |-> <<sigI, sigS>>,
            wait |-> IF b.USE_SPI THEN 38000 ELSE 0 ] :
      ackI \in IF b.USE_I2C THEN BOOLEAN ELSE {FALSE},
      sigI \in IF b.USE_I2C THEN SigBytes ELSE {0},
      sigS \in IF b.USE_SPI THEN SigBytes ELSE {0} }

(* the outcomes of ak8963Detect: the value returned, the transport bound  *)
(* if any, the operations made, the identity bytes read (sig stays 0   *)
(* where no read fills it) and the wait, for the answers of the buses     *)
DetectOutcomes(b) ==
    { LET byI2c == b.USE_I2C /\ Identified(ackI, sigI)
          bySpi == b.USE_SPI /\ Identified(TRUE, sigS)
      IN  [ ret  |-> byI2c \/ bySpi,
            bind |-> IF byI2c THEN "i2c" ELSE IF bySpi THEN "spi" ELSE "keep",
            ops  |-> (IF b.USE_I2C THEN I2cProbeOps ELSE <<>>)
                       \o (IF b.USE_SPI /\ ~byI2c THEN SpiProbeOps ELSE <<>>),
            acks |-> <<ackI>>,
            sigs |-> <<sigI, IF b.USE_SPI /\ ~byI2c THEN sigS ELSE 0>>,
            wait |-> IF b.USE_SPI /\ ~byI2c THEN 38000 ELSE 0 ] :
      ackI \in IF b.USE_I2C THEN BOOLEAN ELSE {FALSE},
      sigI \in IF b.USE_I2C THEN SigBytes ELSE {0},
      sigS \in IF b.USE_SPI THEN SigBytes ELSE {0} }

(* ak8963Detect(mag), called before the device is initialised *)
Ak8963Detect ==
    /\ initRuns = 0
    /\ mag.read = "NULL"
    /\ \E d \in DetectOutcomes(build) :
       \E c \in IF d.wait > 0 THEN ClockAfter(d.wait) ELSE {clock} :
         /\ ak8963config' = IF d.bind = "keep" THEN ak8963config ELSE d.bind
         /\ mag' = IF d.ret THEN [init |-> "ak8963Init", read |-> "ak8963Read"] ELSE mag
         /\ clock' = c
         /\ sinceStart' = Elapsed(sinceStart, clock, c)
         /\ slv0' = IF d.wait > 0 THEN [reg |-> AK8963_MAG_REG_WHO_AM_I, len |-> 1] ELSE slv0
         /\ last' = [BlankLast EXCEPT !.fn = "detect", !.ret = d.ret, !.ops = d.ops,
                                       !.acks = d.acks, !.buf = d.sigs]
    /\ UNCHANGED <<build, magGain, queuedRead, state, started, initRuns, magData, polls>>

(* ------------------------------------------------------------------ *)
(* The driver                                                         *)
(* ------------------------------------------------------------------ *)
(* the builds followed: a board with both buses and the blocking reader,  *)
(* and the SPRACINGF3EVO board, whose magnetometer sits behind the MPU    *)
Builds ==
    { [USE_I2C |-> TRUE, USE_SPI |-> TRUE, SPRACINGF3EVO |-> FALSE],
      [USE_I2C |-> FALSE, USE_SPI |-> TRUE, SPRACINGF3EVO |-> TRUE] }

(* the statics as the file initialises them, lines 94-95, 136 and 297 *)
Statics ==
    /\ ak8963config = "none"
    /\ mag = [init |-> "NULL", read |-> "NULL"]
    /\ magGain = <<UnitGain, UnitGain, UnitGain>>
    /\ queuedRead = NoQueuedRead
    /\ state = "CHECK_STATUS"
    /\ slv0 = [reg |-> 0, len |-> 0]
    /\ sinceStart = 0
    /\ started = 0
    /\ initRuns = 0
    /\ magData = <<0, 0, 0>>
    /\ polls = 0
    /\ last = BlankLast

Init ==
    /\ build \in Builds
    /\ clock \in {Zero32, <<65535, 61536>>}
    /\ Statics

Next ==
    \/ Ak8963Detect
    \/ Ak8963Init
    \/ ReadAsync
    \/ ReadSync
    \/ Tick

Spec == Init /\ [][Next]_vars

(* ------------------------------------------------------------------ *)
(* The queued-read functions called on their own: ak8963SPIStartRead  *)
(* and ak8963SPICompleteRead are external functions of the file       *)
(* ------------------------------------------------------------------ *)
(* the transfers a caller may ask for: register and length *)
Transfers == { <<AK8963_MAG_REG_STATUS1, 1>>, <<AK8963_MAG_REG_HXL, 7>> }

CallStartRead ==
    /\ \E t \in Transfers :
         LET s == StartRead(queuedRead, clock, AK8963_MAG_I2C_ADDRESS, t[1], t[2])
         IN  /\ queuedRead' = s.q
             /\ slv0' = IF s.ops # <<>> THEN [reg |-> t[1], len |-> t[2]] ELSE slv0
             /\ sinceStart' = IF s.ops # <<>> THEN 0 ELSE sinceStart
             /\ started' = IF s.ops # <<>> THEN started + 1 ELSE started
             /\ last' = [BlankLast EXCEPT !.fn = "startRead", !.entry = state,
                                           !.entryQ = queuedRead, !.entrySince = sinceStart,
                                           !.ret = s.ok, !.ops = s.ops, !.buf = t]
    /\ UNCHANGED <<build, ak8963config, mag, magGain, state, clock, initRuns,
                   magData, polls>>

CallCompleteRead ==
    /\ \E k \in CompleteRead(queuedRead, clock) :
         LET c == AfterComplete(EntryContext(clock, sinceStart), k)
         IN  /\ queuedRead' = c.q
             /\ clock' = c.now
             /\ sinceStart' = c.since
             /\ started' = c.started
             /\ last' = [BlankLast EXCEPT !.fn = "completeRead", !.entry = state,
                                           !.entryQ = queuedRead, !.entrySince = sinceStart,
                                           !.ret = k.ret, !.ops = c.ops,
                                           !.fetches = c.fetches]
    /\ UNCHANGED <<build, ak8963config, mag, magGain, state, slv0, initRuns,
                   magData, polls>>

NextApi ==
    \/ Ak8963Detect
    \/ ReadAsync
    \/ CallStartRead
    \/ CallCompleteRead
    \/ Tick

InitApi ==
    /\ Init
    /\ build.SPRACINGF3EVO

SpecApi == InitApi /\ [][NextApi]_vars

(* ------------------------------------------------------------------ *)
(* The periodic caller against a bus that always reports a ready      *)
(* status and data without the error bit (0x02) or the overflow bit   *)
(* (bit 2) in status 2                                                *)
(* ------------------------------------------------------------------ *)
(* calls without a sample that the caller is followed for *)
MaxPolls == 6

ReadyBuffers(s) ==
    { b \in ExtSensData(s) :
        /\ Covers(s, AK8963_MAG_REG_STATUS1)
              => (b[AK8963_MAG_REG_STATUS1 - s.reg + 1] % 2 = 1)
        /\ Covers(s, AK8963_MAG_REG_STATUS2)
              => LET st2 == b[AK8963_MAG_REG_STATUS2 - s.reg + 1]
                 IN  (st2 \div 2) % 2 = 0 /\ (st2 \div 4) % 2 = 0 }

(* the caller's tick: the clock has advanced by at most MaxPollGap, and   *)
(* ak8963Read is called                                                   *)
Poll ==
    /\ polls < MaxPolls
    /\ \E c \in ClockValues :
         /\ ToInt32(Sub32(c, clock)) \in 1..MaxPollGap
         /\ ReadAsyncAt(c, Elapsed(sinceStart, clock, c), ReadyBuffers(slv0))
    /\ polls' = IF last'.ret THEN 0 ELSE polls + 1

(* the SPRACINGF3EVO driver after detection, calibrated or not *)
InitPoll ==
    /\ build = [USE_I2C |-> FALSE, USE_SPI |-> TRUE, SPRACINGF3EVO |-> TRUE]
    /\ ak8963config = "spi"
    /\ mag = [init |-> "ak8963Init", read |-> "ak8963Read"]
    /\ \E cal \in CalTriples :
         magGain \in { <<UnitGain, UnitGain, UnitGain>>,
                       <<GainOf(cal[X]), GainOf(cal[Y]), GainOf(cal[Z])>> }
    /\ initRuns \in {0, 1}
    /\ queuedRead = NoQueuedRead
    /\ state = "CHECK_STATUS"
    /\ slv0 \in { [reg |-> AK8963_MAG_REG_WHO_AM_I, len |-> 1],
                   [reg |-> AK8963_MAG_REG_CNTL, len |-> 0] }
    /\ clock \in ClockValues
    /\ sinceStart = QueuedReadBudget
    /\ started = 0
    /\ magData = <<0, 0, 0>>
    /\ polls = 0
    /\ last = BlankLast

SpecPoll == InitPoll /\ [][Poll]_vars /\ WF_vars(Poll)

(* ------------------------------------------------------------------ *)
(* Properties                                                         *)
(* ------------------------------------------------------------------ *)
AsyncCall == last.fn = "readAsync"
SyncCall == last.fn = "readSync"
(* the last call fetched the MPU's data registers *)
Fetched == last.fetches # <<>>
(* bit k of byte v is set *)
BitSet(v, k) == (v \div k) % 2 = 1

(* C1: whenever an invocation of the asynchronous reader entered in       *)
(* WAITING_FOR_DATA completes the 7-byte transaction and rejects the      *)
(* buffer (it returns no sample), the state on return is CHECK_STATUS.    *)
C1_RejectedDataResetsToCheckStatus ==
    (AsyncCall /\ last.entry = "WAITING_FOR_DATA" /\ Fetched /\ ~last.ret)
        => state = "CHECK_STATUS"

(* C2: in both readers, a data read whose status-2 byte has the           *)
(* data-error bit (0x02) or the sensor-overflow bit (bit 2, 0x04) set     *)
(* returns no sample and leaves magData alone, and a sample is returned   *)
(* only after a data read with neither bit set.                           *)
C2_ErrorOrOverflowSuppressesSample ==
    (AsyncCall \/ SyncCall) =>
        /\ (last.status2 # -1 /\ (BitSet(last.status2, 2) \/ BitSet(last.status2, 4)))
              => (~last.ret /\ magData = last.entryMag)
        /\ last.ret
              => (last.status2 # -1 /\ ~BitSet(last.status2, 2) /\ ~BitSet(last.status2, 4))

(* C3: a call of ak8963SPIStartRead made while queuedRead.waiting is set  *)
(* returns false, leaves queuedRead (waiting, len, readStartedAt) as it   *)
(* was and writes nothing to the bus; at most one queued read is          *)
(* programmed and not completed, in every reachable state.                *)
C3_StartWhileWaitingRejected ==
    /\ (last.fn = "startRead" /\ last.entryQ.waiting)
          => (~last.ret /\ queuedRead = last.entryQ /\ last.ops = <<>>)
    /\ started <= 1
    /\ (started = 1) = queuedRead.waiting

(* a start asked for another length at a later clock reading was rejected *)
C3_Witness ==
    /\ last.fn = "startRead"
    /\ last.entryQ.waiting
    /\ last.buf[2] # last.entryQ.len
    /\ clock # last.entryQ.readStartedAt

(* C4: no fetch of a queued read is made before 8000 microseconds have    *)
(* passed since its start; an invocation of the reader entered in         *)
(* WAITING_FOR_STATUS or WAITING_FOR_DATA less than 8000 microseconds     *)
(* after the start returns no sample, touches no bus and leaves the       *)
(* state and queuedRead as they were.                                     *)
C4_TimingGate ==
    /\ (last.fn \in {"readAsync", "completeRead"})
          => \A i \in 1..Len(last.fetches) :
               last.fetches[i].expected >= 1 => last.fetches[i].since >= QueuedReadBudget
    /\ (AsyncCall /\ last.entry \in {"WAITING_FOR_STATUS", "WAITING_FOR_DATA"}
           /\ last.entrySince < QueuedReadBudget)
          => /\ ~last.ret
             /\ last.ops = <<>>
             /\ state = last.entry
             /\ queuedRead = last.entryQ
             /\ magData = last.entryMag

(* the reader was called 4000 microseconds after a start made before the  *)
(* clock wrapped                                                          *)
C4_Witness ==
    /\ AsyncCall
    /\ last.entry = "WAITING_FOR_DATA"
    /\ last.entrySince = 4000
    /\ last.entryQ.readStartedAt = <<65535, 61536>>
    /\ clock = <<0, 0>>

(* C5: against a bus that always reports a ready status and data with     *)
(* neither the error nor the overflow bit, the periodic caller gets a     *)
(* sample within the calls that exhaust two conversion budgets: one call  *)
(* to start, two per budget at the shortest gap, so never five calls in   *)
(* a row without a sample.                                                *)
C5_SampleWithinTwoBudgets == polls < 5

(* C6: the asynchronous reader fetches the MPU's data registers only      *)
(* with queuedRead.waiting already cleared, and returns a sample only     *)
(* after such a fetch, with waiting clear.                                *)
C6_NoSampleWhileWaiting ==
    AsyncCall =>
        /\ \A i \in 1..Len(last.fetches) : ~last.fetches[i].waiting
        /\ last.ret => (Fetched /\ ~queuedRead.waiting)

(* a read that was waiting on entry was completed and gave a sample *)
C6_Witness == AsyncCall /\ last.ret /\ last.entryQ.waiting

(* C7: an invocation of the asynchronous reader returns after at most     *)
(* two passes; a second pass happens exactly when the status read         *)
(* completed in WAITING_FOR_STATUS shows neither ready nor overrun, it    *)
(* is a pass through CHECK_STATUS, and the invocation returns no sample.  *)
C7_SingleRestart ==
    AsyncCall =>
        /\ last.done
        /\ Len(last.passes) <= 2
        /\ Len(last.passes) = 2
              => /\ last.passes = <<"WAITING_FOR_STATUS", "CHECK_STATUS">>
                 /\ ~last.ret
                 /\ state = "WAITING_FOR_STATUS"
        /\ (last.entry = "WAITING_FOR_STATUS" /\ Fetched
               /\ ~BitSet(last.status, 1) /\ ~BitSet(last.status, 2))
              => Len(last.passes) = 2

(* a status read came back with neither bit and the reader restarted *)
C7_Witness ==
    /\ AsyncCall
    /\ Len(last.passes) = 2
    /\ last.status = 0
    /\ queuedRead.waiting

(* C8: the synchronous reader returns at the status step exactly when     *)
(* the status read was not acknowledged or the status byte has neither    *)
(* the ready bit (0x01) nor the overrun bit (0x02).                       *)
C8_SyncStatusStep ==
    SyncCall =>
        ((Len(last.ops) = 1)
            <=> (~last.acks[1] \/ (~BitSet(last.status, 1) /\ ~BitSet(last.status, 2))))

(* C9: once the synchronous reader has decoded the three axes, it         *)
(* returns a sample whatever the re-arm write returned.                   *)
C9_SampleSurvivesFailedRearm ==
    (SyncCall /\ last.buf # <<>>) => last.ret

(* the little-endian signed 16-bit value of a byte pair *)
LE16(lo, hi) == lo + 256 * hi - (IF hi >= 128 THEN 65536 ELSE 0)
(* a reader decoded a buffer in the last call *)
Decoded == (AsyncCall \/ SyncCall) /\ last.buf # <<>>

(* C10: for every accepted buffer, each axis emitted is the negated        *)
(* little-endian signed 16-bit value of its byte pair times the axis's    *)
(* gain, taken to the int16_t output by dropping the fraction, in X, Y,   *)
(* Z order and in both readers; bytes [0,1, 0,2, 0,3] with gains [1,1,1]  *)
(* give [-256, -512, -768].                                               *)
C10_AxisIsNegatedProduct ==
    Decoded =>
        /\ \A a \in 1..3 :
              LET p == (- LE16(last.buf[2 * a - 1], last.buf[2 * a])) * last.gain[a]
                  r == p - magData[a] * GainDen
              IN  /\ r > -GainDen /\ r < GainDen
                  /\ p >= 0 => r >= 0
                  /\ p <= 0 => r <= 0
        /\ (SubSeq(last.buf, 1, 6) = <<0, 1, 0, 2, 0, 3>>
               /\ last.gain = <<UnitGain, UnitGain, UnitGain>>)
              => magData = <<-256, -512, -768>>

(* the calibrator ran and its read of the fuse-ROM bytes was acknowledged *)
Calibrated == last.fn = "init" /\ last.acks[3]

(* C11: after a calibration that read fuse-ROM byte 128 for an axis, the  *)
(* gain of that axis is exactly 30.0.                                     *)
C11_NeutralByteGivesThirty ==
    Calibrated =>
        \A a \in 1..3 : last.buf[a] = 128 => magGain[a] = 30 * GainDen

(* C12: after a calibration, the gain of every axis lies in [15, 45].     *)
C12_GainInNominalRange ==
    Calibrated =>
        \A a \in 1..3 : magGain[a] >= 15 * GainDen /\ magGain[a] <= 45 * GainDen

(* C13: ak8963Detect reads the identity over the direct bus first; if     *)
(* that read is acknowledged and gives 0x48 it binds the direct bus and   *)
(* makes no access to the MPU; otherwise it configures and probes the     *)
(* pass-through path and binds it on 0x48; if neither gives 0x48 it       *)
(* returns false and leaves ak8963config and the caller's init and read   *)
(* entries as they were.                                                  *)
C13_DetectOrderAndFailure ==
    [][ last'.fn = "detect" =>
          LET direct == build.USE_I2C /\ last'.acks[1] /\ last'.buf[1] = AK8963_Device_ID
              passed == build.USE_SPI /\ last'.buf[2] = AK8963_Device_ID
              bound  == [init |-> "ak8963Init", read |-> "ak8963Read"]
          IN  /\ build.USE_I2C => last'.ops[1] = <<"i2c.read", AK8963_MAG_REG_WHO_AM_I, 1>>
              /\ direct => /\ last'.ret
                           /\ ak8963config' = "i2c"
                           /\ mag' = bound
                           /\ Len(last'.ops) = 1
                           /\ slv0' = slv0
              /\ (~direct /\ build.USE_SPI)
                    => /\ Len(last'.ops) = (IF build.USE_I2C THEN 1 ELSE 0) + 7
                       /\ last'.ops[Len(last'.ops)] = <<"mpu.read", "MPU_RA_EXT_SENS_DATA_00", 1>>
              /\ (~direct /\ passed) => (last'.ret /\ ak8963config' = "spi" /\ mag' = bound)
              /\ (~direct /\ ~passed)
                    => (~last'.ret /\ ak8963config' = ak8963config /\ mag' = mag)
      ]_vars

(* both paths were probed and neither gave 0x48: absent, nothing bound *)
C13_Witness ==
    /\ last.fn = "detect"
    /\ build.USE_I2C
    /\ last.acks[1]
    /\ last.buf = <<0, 0>>
    /\ ~last.ret
    /\ Len(last.ops) = 8
    /\ ak8963config = "none"
    /\ mag.read = "NULL"

(* C14: ak8963Init makes its seven bus accesses in the order power-down   *)
(* write, fuse-ROM write, 3-byte read from ASAX, power-down write, read   *)
(* of status 1, read of status 2, arm write, whatever is acknowledged;    *)
(* the arm write is mode 0x02 in the SPRACINGF3EVO build and 0x01 in the  *)
(* others.                                                                *)
C14_InitSequence ==
    last.fn = "init" =>
        /\ Len(last.acks) = 7
        /\ last.ops = << <<"write", 10, 0>>, <<"write", 10, 15>>, <<"read", 16, 3>>,
                         <<"write", 10, 0>>, <<"read", 2, 1>>, <<"read", 9, 1>>,
                         <<"write", 10, IF build.SPRACINGF3EVO THEN 2 ELSE 1>> >>

(* the sequence ran in the SPRACINGF3EVO build; in another build it ran   *)
(* with no access acknowledged                                            *)
C14_Witness ==
    /\ last.fn = "init"
    /\ \/ build.SPRACINGF3EVO
       \/ \A i \in 1..7 : ~last.acks[i]

(* C15: no call of ak8963Init or of ak8963Read changes ak8963config, no   *)
(* call of ak8963Read changes magGain, and magGain changes only in a      *)
(* call of ak8963Init.                                                    *)
C15_BindingAndGainsFrame ==
    [][ /\ last'.fn \in {"init", "readAsync", "readSync"}
              => (ak8963config' = ak8963config /\ ak8963config # "none")
        /\ last'.fn \in {"readAsync", "readSync"} => magGain' = magGain
        /\ magGain' # magGain => last'.fn = "init"
      ]_vars

(* a reader returned a sample under calibrated gains on the direct bus *)
C15_Witness ==
    /\ SyncCall
    /\ last.ret
    /\ ak8963config = "i2c"
    /\ magGain = <<0, 3840, 7650>>
    /\ last.gain = magGain

(* C16: an invocation of the asynchronous reader entered in CHECK_STATUS  *)
(* programs one read of 1 byte from status 1 (register 0x02), records     *)
(* the clock reading at that moment in readStartedAt, leaves state        *)
(* WAITING_FOR_STATUS, returns false without fetching or waiting, and     *)
(* leaves magData alone.                                                  *)
C16_CheckStatusStartsStatusRead ==
    (AsyncCall /\ last.entry = "CHECK_STATUS") =>
        /\ last.passes = <<"CHECK_STATUS">>
        /\ last.ops = << <<"mpu.write", "MPU_RA_I2C_SLV0_ADDR", 140>>,
                         <<"mpu.write", "MPU_RA_I2C_SLV0_REG", 2>>,
                         <<"mpu.write", "MPU_RA_I2C_SLV0_CTRL", 129>> >>
        /\ queuedRead = [waiting |-> TRUE, len |-> 1, readStartedAt |-> clock]
        /\ sinceStart = 0
        /\ started = 1
        /\ state = "WAITING_FOR_STATUS"
        /\ ~last.ret
        /\ last.fetches = <<>>
        /\ magData = last.entryMag

(* the reader started a status read after an earlier sample *)
C16_Witness ==
    /\ AsyncCall
    /\ last.entry = "CHECK_STATUS"
    /\ last.entryMag # <<0, 0, 0>>
    /\ queuedRead.waiting
    /\ last.entryQ.len = 7

(* the starts the reader asked for in the last call: one for each pass    *)
(* through CHECK_STATUS and one after an accepted status byte             *)
StartsAsked ==
    Cardinality({i \in 1..Len(last.passes) : last.passes[i] = "CHECK_STATUS"})
      + (IF last.entry = "WAITING_FOR_STATUS" /\ Fetched /\ Len(last.passes) = 1
         THEN 1 ELSE 0)
(* the writes to the MPU's slave-0 registers in the last call *)
Slv0Writes == Cardinality({i \in 1..Len(last.ops) : last.ops[i][1] = "mpu.write"})

(* C17: between invocations of the asynchronous reader, state             *)
(* CHECK_STATUS implies that no queued read is waiting and state          *)
(* WAITING_FOR_STATUS implies that one of length 1 is; every start the    *)
(* reader asks for is made (its three register writes happen and the      *)
(* read it asked for is the one waiting on return).                       *)
C17_ReaderStartsNeverRejected ==
    /\ state = "CHECK_STATUS" => ~queuedRead.waiting
    /\ state = "WAITING_FOR_STATUS" => (queuedRead.waiting /\ queuedRead.len = 1)
    /\ AsyncCall =>
          /\ Slv0Writes = 3 * StartsAsked
          /\ StartsAsked >= 1
                => /\ queuedRead.waiting
                   /\ queuedRead.readStartedAt = clock
                   /\ queuedRead.len = (IF state = "WAITING_FOR_DATA" THEN 7 ELSE 1)

(* a status byte was accepted and the data read the reader asked for is   *)
(* waiting                                                                *)
C17_Witness ==
    /\ AsyncCall
    /\ last.entry = "WAITING_FOR_STATUS"
    /\ last.status = 1
    /\ state = "WAITING_FOR_DATA"
    /\ queuedRead = [waiting |-> TRUE, len |-> 7, readStartedAt |-> clock]

(* C18: every fetch of the MPU's data registers by the asynchronous       *)
(* reader completes a read that the reader started and had not yet        *)
(* completed: queuedRead.waiting is set on entry to the completion, one   *)
(* start precedes it since the last fetch, and the length fetched is      *)
(* that start's.                                                          *)
C18_FetchCompletesOwnStart ==
    (AsyncCall /\ Fetched) =>
        /\ last.entryQ.waiting
        /\ \A i \in 1..Len(last.fetches) :
              /\ last.fetches[i].expected = 1
              /\ last.fetches[i].len = last.entryQ.len

(* C19: every invocation of the synchronous reader that made the 7-byte   *)
(* data read, whatever that read returned, goes on to write               *)
(* single-measurement mode to the control register.                       *)
C19_DataReadIsFollowedByRearm ==
    (SyncCall /\ Len(last.ops) >= 2) =>
        /\ Len(last.ops) = 3
        /\ last.ops[3] = <<"write", AK8963_MAG_REG_CNTL, CNTL_MODE_ONCE>>

(* C20: the value ak8963SPIQueuedReadTimeRemaining returns to the reader  *)
(* is in 0 .. 8000, is 0 when no read is waiting, and is 0 when 8000      *)
(* microseconds or more have passed since the start.                      *)
C20_TimeRemainingBounded ==
    (AsyncCall /\ last.remaining # <<>>) =>
        /\ last.remaining[1] = 0 /\ last.remaining[2] <= QueuedReadBudget
        /\ ~last.entryQ.waiting => last.remaining = Zero32
        /\ last.entrySince >= QueuedReadBudget => last.remaining = Zero32

====
